---- MODULE Spec2Model ----
(***************************************************************************)
(* Model of the Smart Split load-testing scripts:                          *)
(*   load-testing/locustfile.py      - virtual user profiles and the       *)
(*                                     Supabase authentication helper      *)
(*   load-testing/setup_test_users.py - test account provisioning          *)
(***************************************************************************)
EXTENDS Integers, Sequences, FiniteSets, TLC

VARIABLES
    SUPABASE_ANON_KEY,    \* locustfile.py module constant read from the environment
    TEST_USERS,           \* locustfile.py credential pool (module-level list)
    profile,              \* the HttpUser subclass each virtual user is an instance of
    pc,                   \* position of each virtual user: "spawned", "running", "aborted"
    heap,                 \* class attributes and per-instance attributes
    logins,               \* per user: number of get_supabase_token invocations
    last,                 \* the most recent on_start / task execution and what it did
                          \* (urlset: whether the response text read by the task
                          \* contains "urlset")
    SUPABASE_SERVICE_KEY, \* setup_test_users.py module constant read from the environment
    mpc,                  \* position of setup_test_users.main
    idx,                  \* index of the next account main's loop handles
    success_count,        \* main's success_count
    calls,                \* create_user invocations made by main, in order
    summary               \* the success/total line main printed, if any

vars == <<SUPABASE_ANON_KEY, TEST_USERS, profile, pc, heap, logins, last,
          SUPABASE_SERVICE_KEY, mpc, idx, success_count, calls, summary>>

locustVars == <<SUPABASE_ANON_KEY, TEST_USERS, profile, pc, heap, logins, last>>
setupVars == <<SUPABASE_SERVICE_KEY, mpc, idx, success_count, calls, summary>>

(***************************************************************************)
(* Bounds                                                                  *)
(***************************************************************************)
NumUsers == 2

Users == 1..NumUsers

(***************************************************************************)
(* Python values                                                           *)
(***************************************************************************)
None == [py |-> "None", s |-> ""]
Str(s) == [py |-> "str", s |-> s]

\* truth value of an optional string, as "if x:" / "if not x:" evaluates it
Truthy(v) == v.py = "str" /\ v.s # ""

\* str(v) as an f-string placeholder renders it
Format(v) == IF v.py = "None" THEN "None" ELSE v.s

EmptyDict == [k \in {} |-> None]

DigitChars == <<"0", "1", "2", "3", "4", "5", "6", "7", "8", "9">>

RECURSIVE Digits(_)
\* decimal rendering of a non-negative integer, one character per element
Digits(n) == IF n < 10 THEN <<DigitChars[n + 1]>>
             ELSE Digits(n \div 10) \o <<DigitChars[(n % 10) + 1]>>

\* f"{text}{number}"
FmtStatus(text, n) == <<text>> \o Digits(n)

\* needle occurs in hay as a contiguous run
Contains(hay, needle) ==
    \E i \in 1..(Len(hay) - Len(needle) + 1) :
        SubSeq(hay, i, i + Len(needle) - 1) = needle

(***************************************************************************)
(* Environment inputs                                                      *)
(***************************************************************************)
AnonKeys == {"", "anon-key"}
ServiceKeys == {"", "service-key"}

\* status codes the application under test answers with
TaskStatuses == {200, 302, 307, 401, 429, 500, 503}
\* status codes the auth provider answers with
AuthStatuses == {200, 400}
AdminStatuses == {200, 201, 400, 422, 500}

\* one access token per login session, as the auth provider issues them
JWTs == <<"jwt-1", "jwt-2", "jwt-3", "jwt-4">>
UIDs == <<"uid-1", "uid-2", "uid-3", "uid-4">>

\* shapes of the body the token endpoint answers with: kind is what the text
\* parses to, access_token and user say how the JSON object holds each key
BodyShapes ==
    { [kind |-> "invalid", access_token |-> "absent", user |-> "absent"],
      [kind |-> "array", access_token |-> "absent", user |-> "absent"],
      [kind |-> "object", access_token |-> "absent", user |-> "absent"],
      [kind |-> "object", access_token |-> "empty", user |-> "object"],
      [kind |-> "object", access_token |-> "value", user |-> "null"],
      [kind |-> "object", access_token |-> "value", user |-> "object"] }

\* bodies the token endpoint may answer the login of user u with
TokenBodies(u) ==
    { [kind |-> b.kind, access_token |-> b.access_token, user |-> b.user,
       jwt |-> JWTs[u], uid |-> UIDs[u]] : b \in BodyShapes }

NoBody == [kind |-> "invalid", access_token |-> "absent", user |-> "absent",
           jwt |-> "", uid |-> ""]

\* what requests.post does: a transport exception or a response; the body
\* is parsed for a 200 answer only
Transports(u) ==
    { [exc |-> "ConnectionError", status |-> 0, body |-> NoBody] }
    \cup { [exc |-> "none", status |-> s, body |-> NoBody] : s \in AuthStatuses \ {200} }
    \cup { [exc |-> "none", status |-> 200, body |-> b] : b \in TokenBodies(u) }

(***************************************************************************)
(* locustfile.py: get_supabase_token                                       *)
(***************************************************************************)
NoneResult == [py |-> "None", access_token |-> None, user_id |-> None, email |-> ""]

\* truth value of "dict | None": the returned dict always has three keys
DictTruthy(r) == r.py = "dict"

\* data.get("access_token")
GetAccessToken(body) ==
    CASE body.access_token = "value" -> Str(body.jwt)
      [] body.access_token = "empty" -> Str("")
      [] OTHER -> None

\* data.get("user", {}).get("id"), for a user value that has .get
GetUserId(body) ==
    IF body.user = "object" THEN Str(body.uid) ELSE None

TokenPost(email, password, key) ==
    [method |-> "POST", url |-> "/auth/v1/token?grant_type=password",
     apikey |-> key, email |-> email, password |-> password, timeout |-> 10]

\* the try block, posting again when the first answer is not 200
TokenTry_Retry(email, password, key, t) ==
    LET post == TokenPost(email, password, key)
        posts == IF t.exc = "none" /\ t.status # 200 THEN <<post, post>> ELSE <<post>>
    IN
    IF t.exc # "none"
    THEN [posts |-> posts, exc |-> t.exc, ret |-> NoneResult]
    ELSE IF t.status = 200
    THEN IF t.body.kind = "invalid"
         THEN [posts |-> posts, exc |-> "JSONDecodeError", ret |-> NoneResult]
         ELSE IF t.body.kind = "array" \/ t.body.user = "null"
         THEN [posts |-> posts, exc |-> "AttributeError", ret |-> NoneResult]
         ELSE [posts |-> posts, exc |-> "none",
               ret |-> [py |-> "dict",
                        access_token |-> GetAccessToken(t.body),
                        user_id |-> GetUserId(t.body),
                        email |-> email]]
    ELSE [posts |-> posts, exc |-> "none", ret |-> NoneResult]

\* the try block: the requests issued, the exception that leaves the block
\* ("none" when it returns) and the value returned
TokenTry(email, password, key, t) ==
    LET posts == <<TokenPost(email, password, key)>> IN
    IF t.exc # "none"
    THEN [posts |-> posts, exc |-> t.exc, ret |-> NoneResult]
    ELSE IF t.status = 200
    THEN IF t.body.kind = "invalid"
         THEN [posts |-> posts, exc |-> "JSONDecodeError", ret |-> NoneResult]
         ELSE IF t.body.kind = "array" \/ t.body.user = "null"
         THEN [posts |-> posts, exc |-> "AttributeError", ret |-> NoneResult]
         ELSE [posts |-> posts, exc |-> "none",
               ret |-> [py |-> "dict",
                        access_token |-> GetAccessToken(t.body),
                        user_id |-> GetUserId(t.body),
                        email |-> email]]
    ELSE [posts |-> posts, exc |-> "none", ret |-> NoneResult]

\* "except requests.RequestException": transport errors only
ExceptTransportOnly(exc) == exc = "ConnectionError"

\* "except Exception": every exception the try block can raise is one
ExceptException(exc) ==
    exc \in {"ConnectionError", "JSONDecodeError", "AttributeError"}

get_supabase_token(email, password, key, t) ==
    IF key = ""
    THEN [posts |-> <<>>, exc |-> "none", ret |-> NoneResult]
    ELSE LET r == TokenTry(email, password, key, t) IN
         IF ExceptException(r.exc)
         THEN [posts |-> r.posts, exc |-> "none", ret |-> NoneResult]
         ELSE r

(***************************************************************************)
(* Object model: class-level defaults and instance attributes              *)
(***************************************************************************)
Profiles == {"PublicUser", "AuthenticatedUser", "APIUser", "SEOCrawler",
             "StaticAssetLoader"}

AuthProfiles == {"AuthenticatedUser", "APIUser"}

\* position of a class in the file
Rank(c) ==
    CASE c = "PublicUser" -> 1
      [] c = "AuthenticatedUser" -> 2
      [] c = "APIUser" -> 3
      [] c = "SEOCrawler" -> 4
      [] c = "StaticAssetLoader" -> 5

ClassAttrs ==
    [c \in Profiles |->
        CASE c = "AuthenticatedUser" ->
                 [access_token |-> None, user_id |-> None, auth_headers |-> EmptyDict]
          [] c = "APIUser" -> [access_token |-> None, user_id |-> None]
          [] OTHER -> EmptyDict]

\* self.<name>: the instance attribute if set, else the class attribute
GetAttr(h, c, u, name) ==
    IF name \in DOMAIN h.inst[u] THEN h.inst[u][name] ELSE h.cls[c][name]

\* type(self).<name> = v
SetAttr_OnClass(h, c, u, name, v) ==
    [h EXCEPT !.cls[c] = (name :> v) @@ @]

\* self.<name> = v
SetAttr(h, c, u, name, v) ==
    [h EXCEPT !.inst[u] = (name :> v) @@ @]

Bearer(tok) == <<"Bearer ", Format(tok)>>

(***************************************************************************)
(* Requests and recorded results                                           *)
(***************************************************************************)
AuthCookieName == "sb-cizakzarkdgieclbwljy-auth-token"

\* json.dumps of a str | None
JsonScalar(v) == IF v.py = "None" THEN <<"null">> ELSE <<"\"", v.s, "\"">>

\* json.dumps({"access_token": tok, "token_type": "bearer"})
JsonDumpsToken(tok) ==
    <<"{\"access_token\": ">> \o JsonScalar(tok) \o <<", \"token_type\": \"bearer\"}">>

AuthCookies(tok) == (AuthCookieName :> JsonDumpsToken(tok))

Request(method, path, name, cookies, json) ==
    [method |-> method, path |-> path, name |-> name, cookies |-> cookies,
     headers |-> EmptyDict, json |-> json]

Success == [outcome |-> "success", msg |-> <<>>]
Failure(msg) == [outcome |-> "failure", msg |-> msg]
NoRecord == [outcome |-> "none", msg |-> <<>>]

NoAuth == [email |-> "", net |-> [exc |-> "none", status |-> 0, body |-> NoBody],
           posts |-> <<>>, exc |-> "none", ret |-> NoneResult]

NoEvent == [kind |-> "none", user |-> 0, task |-> "", sent |-> <<>>, status |-> 0,
            urlset |-> FALSE, rec |-> NoRecord, auth |-> NoAuth]

(***************************************************************************)
(* Initial states                                                          *)
(***************************************************************************)
TestUsersLocust ==
    << [email |-> "loadtest1@smartsplit.test", password |-> "LoadTest123!"],
       [email |-> "loadtest2@smartsplit.test", password |-> "LoadTest123!"],
       [email |-> "loadtest3@smartsplit.test", password |-> "LoadTest123!"] >>

\* provisioning script state before main runs
SetupIdle ==
    /\ mpc = "start"
    /\ idx = 1
    /\ success_count = 0
    /\ calls = <<>>
    /\ summary = <<>>

\* load test state before any virtual user exists
LocustIdle ==
    /\ TEST_USERS = TestUsersLocust
    /\ profile = [u \in Users |-> "PublicUser"]
    /\ pc = [u \in Users |-> "running"]
    /\ heap = [cls |-> ClassAttrs, inst |-> [u \in Users |-> EmptyDict]]
    /\ logins = [u \in Users |-> 0]
    /\ last = NoEvent

\* the framework has instantiated the virtual users; a user whose class
\* defines on_start runs it before its first task.  Virtual users are
\* interchangeable, so the assignments of classes to users are taken up to
\* renaming of the users.
Init ==
    /\ SUPABASE_ANON_KEY \in AnonKeys
    /\ TEST_USERS = TestUsersLocust
    /\ profile \in [Users -> Profiles]
    /\ \A u, v \in Users : u < v => Rank(profile[u]) <= Rank(profile[v])
    /\ pc = [u \in Users |-> IF profile[u] \in AuthProfiles THEN "spawned" ELSE "running"]
    /\ heap = [cls |-> ClassAttrs, inst |-> [u \in Users |-> EmptyDict]]
    /\ logins = [u \in Users |-> 0]
    /\ last = NoEvent
    /\ SUPABASE_SERVICE_KEY = ""
    /\ SetupIdle

(***************************************************************************)
(* locustfile.py: session start                                            *)
(***************************************************************************)
\* one execution of on_start: the credentials picked, what the auth provider
\* does with a request (net), and what get_supabase_token sent, raised and returned
LoginEvent(u, email, t, r) ==
    [kind |-> "login", user |-> u, task |-> "on_start", sent |-> <<>>, status |-> 0,
     urlset |-> FALSE, rec |-> NoRecord,
     auth |-> [email |-> email, net |-> t, posts |-> r.posts, exc |-> r.exc,
               ret |-> r.ret]]

\* AuthenticatedUser.on_start
AuthenticatedUser_on_start(u) ==
    /\ profile[u] = "AuthenticatedUser"
    /\ pc[u] = "spawned"
    /\ \E i \in 1..Len(TEST_USERS), t \in Transports(u) :
         LET test_user == TEST_USERS[i]
             r == get_supabase_token(test_user.email, test_user.password,
                                     SUPABASE_ANON_KEY, t)
             c == profile[u]
             h1 == SetAttr(heap, c, u, "access_token", r.ret.access_token)
             h2 == SetAttr(h1, c, u, "user_id", r.ret.user_id)
             h3 == SetAttr(h2, c, u, "auth_headers",
                           [Authorization |-> Bearer(GetAttr(h2, c, u, "access_token")),
                            apikey |-> SUPABASE_ANON_KEY])
         IN /\ logins' = [logins EXCEPT ![u] = @ + 1]
            /\ last' = LoginEvent(u, test_user.email, t, r)
            /\ IF r.exc # "none"
               THEN /\ pc' = [pc EXCEPT ![u] = "aborted"]
                    /\ heap' = heap
               ELSE /\ pc' = [pc EXCEPT ![u] = "running"]
                    /\ heap' = IF DictTruthy(r.ret) THEN h3 ELSE heap
    /\ UNCHANGED <<SUPABASE_ANON_KEY, TEST_USERS, profile>>
    /\ UNCHANGED setupVars

\* APIUser.on_start
APIUser_on_start(u) ==
    /\ profile[u] = "APIUser"
    /\ pc[u] = "spawned"
    /\ \E i \in 1..Len(TEST_USERS), t \in Transports(u) :
         LET test_user == TEST_USERS[i]
             r == get_supabase_token(test_user.email, test_user.password,
                                     SUPABASE_ANON_KEY, t)
             c == profile[u]
             h1 == SetAttr(heap, c, u, "access_token", r.ret.access_token)
             h2 == SetAttr(h1, c, u, "user_id", r.ret.user_id)
         IN /\ logins' = [logins EXCEPT ![u] = @ + 1]
            /\ last' = LoginEvent(u, test_user.email, t, r)
            /\ IF r.exc # "none"
               THEN /\ pc' = [pc EXCEPT ![u] = "aborted"]
                    /\ heap' = heap
               ELSE /\ pc' = [pc EXCEPT ![u] = "running"]
                    /\ heap' = IF DictTruthy(r.ret) THEN h2 ELSE heap
    /\ UNCHANGED <<SUPABASE_ANON_KEY, TEST_USERS, profile>>
    /\ UNCHANGED setupVars

(***************************************************************************)
(* locustfile.py: tasks                                                    *)
(***************************************************************************)
\* the scheduler may hand a task of class c to user u
Ready(u, c) == profile[u] = c /\ pc[u] = "running"

\* one execution of a task: the requests it sent, the response the client
\* got and what the with-block recorded
Execute(u, task, sent, status, urlset, rec) ==
    /\ last' = [kind |-> "task", user |-> u, task |-> task, sent |-> sent,
                status |-> status, urlset |-> urlset, rec |-> rec, auth |-> NoAuth]
    /\ UNCHANGED <<SUPABASE_ANON_KEY, TEST_USERS, profile, pc, heap, logins>>
    /\ UNCHANGED setupVars

\* a task that returned before sending anything
Skip(u, task) == Execute(u, task, <<>>, 0, FALSE, NoRecord)

\* the with-block shared by the tasks that accept 200 only
Get200(u, task, path, name, text) ==
    \E status \in TaskStatuses :
        Execute(u, task, <<Request("GET", path, name, EmptyDict, EmptyDict)>>,
                status, FALSE,
                IF status = 200 THEN Success ELSE Failure(FmtStatus(text, status)))

view_landing_page(u) ==
    Ready(u, "PublicUser")
    /\ Get200(u, "view_landing_page", "/", "Landing Page", "Status code: ")

view_login_page(u) ==
    Ready(u, "PublicUser")
    /\ Get200(u, "view_login_page", "/login", "Login Page", "Status code: ")

view_register_page(u) ==
    Ready(u, "PublicUser")
    /\ Get200(u, "view_register_page", "/register", "Register Page", "Status code: ")

view_feedback_page(u) ==
    Ready(u, "PublicUser")
    /\ Get200(u, "view_feedback_page", "/feedback", "Feedback Page", "Status code: ")

view_forgot_password(u) ==
    Ready(u, "PublicUser")
    /\ Get200(u, "view_forgot_password", "/forgot-password", "Forgot Password",
              "Status code: ")

\* _auth_get without the early return
auth_get_NoGuard(u, task, path, name) ==
    LET access_token == GetAttr(heap, profile[u], u, "access_token") IN
    \E status \in TaskStatuses :
        Execute(u, task,
                <<Request("GET", path, name, AuthCookies(access_token), EmptyDict)>>,
                status, FALSE,
                CASE status = 200 -> Success
                  [] status = 401 -> Failure(<<"Unauthorized - token may be expired">>)
                  [] status = 307 \/ status = 302 -> Failure(<<"Redirected to login">>)
                  [] OTHER -> Failure(FmtStatus("Status: ", status)))

\* _auth_get dropping the token when the server answers 401
auth_get_Clear401(u, task, path, name) ==
    LET access_token == GetAttr(heap, profile[u], u, "access_token") IN
    IF ~Truthy(access_token)
    THEN Skip(u, task)
    ELSE \E status \in TaskStatuses :
           /\ last' = [kind |-> "task", user |-> u, task |-> task,
                       sent |-> <<Request("GET", path, name, AuthCookies(access_token),
                                          EmptyDict)>>,
                       status |-> status, urlset |-> FALSE,
                       rec |-> CASE status = 200 -> Success
                                 [] status = 401 ->
                                      Failure(<<"Unauthorized - token may be expired">>)
                                 [] status = 307 \/ status = 302 ->
                                      Failure(<<"Redirected to login">>)
                                 [] OTHER -> Failure(FmtStatus("Status: ", status)),
                       auth |-> NoAuth]
           /\ heap' = IF status = 401
                      THEN SetAttr(heap, profile[u], u, "access_token", None)
                      ELSE heap
           /\ UNCHANGED <<SUPABASE_ANON_KEY, TEST_USERS, profile, pc, logins>>
           /\ UNCHANGED setupVars

\* AuthenticatedUser._auth_get
auth_get(u, task, path, name) ==
    LET access_token == GetAttr(heap, profile[u], u, "access_token") IN
    IF ~Truthy(access_token)
    THEN Skip(u, task)
    ELSE \E status \in TaskStatuses :
           Execute(u, task,
                   <<Request("GET", path, name, AuthCookies(access_token), EmptyDict)>>,
                   status, FALSE,
                   CASE status = 200 -> Success
                     [] status = 401 -> Failure(<<"Unauthorized - token may be expired">>)
                     [] status = 307 \/ status = 302 -> Failure(<<"Redirected to login">>)
                     [] OTHER -> Failure(FmtStatus("Status: ", status)))

view_dashboard(u) ==
    Ready(u, "AuthenticatedUser") /\ auth_get(u, "view_dashboard", "/dashboard", "Dashboard")

view_groups_list(u) ==
    Ready(u, "AuthenticatedUser") /\ auth_get(u, "view_groups_list", "/groups", "Groups List")

view_expenses_list(u) ==
    Ready(u, "AuthenticatedUser")
    /\ auth_get(u, "view_expenses_list", "/expenses", "Expenses List")

view_activity_feed(u) ==
    Ready(u, "AuthenticatedUser")
    /\ auth_get(u, "view_activity_feed", "/activity", "Activity Feed")

view_settings(u) ==
    Ready(u, "AuthenticatedUser")
    /\ auth_get(u, "view_settings", "/settings/profile", "Profile Settings")

view_feedback_history(u) ==
    Ready(u, "AuthenticatedUser")
    /\ auth_get(u, "view_feedback_history", "/feedback/history", "Feedback History")

health_check(u) ==
    Ready(u, "APIUser")
    /\ Get200(u, "health_check", "/api/health", "API Health", "Health check failed: ")

\* cache_health accepting 200 only
cache_health_200Only(u) ==
    Ready(u, "APIUser")
    /\ Get200(u, "cache_health", "/api/cache/health", "Cache Health",
              "Cache health failed: ")

cache_health(u) ==
    /\ Ready(u, "APIUser")
    /\ \E status \in TaskStatuses :
         Execute(u, "cache_health",
                 <<Request("GET", "/api/cache/health", "Cache Health", EmptyDict, EmptyDict)>>,
                 status, FALSE,
                 IF status \in {200, 503} THEN Success
                 ELSE Failure(FmtStatus("Cache health failed: ", status)))

\* get_user_feedback without the early return
get_user_feedback_NoGuard(u) ==
    /\ Ready(u, "APIUser")
    /\ LET access_token == GetAttr(heap, profile[u], u, "access_token") IN
       \E status \in TaskStatuses :
           Execute(u, "get_user_feedback",
                   <<Request("GET", "/api/feedback", "Get Feedback API",
                             AuthCookies(access_token), EmptyDict)>>,
                   status, FALSE,
                   CASE status = 200 -> Success
                     [] status = 401 -> Failure(<<"Unauthorized">>)
                     [] OTHER -> Failure(FmtStatus("Failed: ", status)))

get_user_feedback(u) ==
    /\ Ready(u, "APIUser")
    /\ LET access_token == GetAttr(heap, profile[u], u, "access_token") IN
       IF ~Truthy(access_token)
       THEN Skip(u, "get_user_feedback")
       ELSE \E status \in TaskStatuses :
              Execute(u, "get_user_feedback",
                      <<Request("GET", "/api/feedback", "Get Feedback API",
                                AuthCookies(access_token), EmptyDict)>>,
                      status, FALSE,
                      CASE status = 200 -> Success
                        [] status = 401 -> Failure(<<"Unauthorized">>)
                        [] OTHER -> Failure(FmtStatus("Failed: ", status)))

submit_feedback(u) ==
    /\ Ready(u, "APIUser")
    /\ \E status \in TaskStatuses :
         Execute(u, "submit_feedback",
                 <<Request("POST", "/api/feedback", "Submit Feedback API", EmptyDict,
                           [body |-> "feedback_data"])>>,
                 status, FALSE,
                 CASE status = 200 -> Success
                   [] status = 429 -> Success
                   [] OTHER -> Failure(FmtStatus("Failed: ", status)))

\* fetch_sitemap judging by the status alone
fetch_sitemap_StatusOnly(u) ==
    /\ Ready(u, "SEOCrawler")
    /\ \E status \in TaskStatuses, urlset \in BOOLEAN :
         Execute(u, "fetch_sitemap",
                 <<Request("GET", "/sitemap.xml", "Sitemap", EmptyDict, EmptyDict)>>,
                 status, urlset,
                 IF status = 200 THEN Success
                 ELSE Failure(FmtStatus("Invalid sitemap: ", status)))

fetch_sitemap(u) ==
    /\ Ready(u, "SEOCrawler")
    /\ \E status \in TaskStatuses, urlset \in BOOLEAN :
         Execute(u, "fetch_sitemap",
                 <<Request("GET", "/sitemap.xml", "Sitemap", EmptyDict, EmptyDict)>>,
                 status, urlset,
                 IF status = 200 /\ urlset THEN Success
                 ELSE Failure(FmtStatus("Invalid sitemap: ", status)))

fetch_robots(u) ==
    Ready(u, "SEOCrawler")
    /\ Get200(u, "fetch_robots", "/robots.txt", "Robots.txt", "Status code: ")

fetch_manifest(u) ==
    Ready(u, "SEOCrawler")
    /\ Get200(u, "fetch_manifest", "/manifest.json", "Manifest", "Status code: ")

load_favicon(u) ==
    Ready(u, "StaticAssetLoader")
    /\ Get200(u, "load_favicon", "/favicon.svg", "Favicon", "Status code: ")

load_logo(u) ==
    Ready(u, "StaticAssetLoader")
    /\ Get200(u, "load_logo", "/logo-icon.svg", "Logo", "Status code: ")

Next ==
    \E u \in Users :
        \/ AuthenticatedUser_on_start(u)
        \/ APIUser_on_start(u)
        \/ view_landing_page(u)
        \/ view_login_page(u)
        \/ view_register_page(u)
        \/ view_feedback_page(u)
        \/ view_forgot_password(u)
        \/ view_dashboard(u)
        \/ view_groups_list(u)
        \/ view_expenses_list(u)
        \/ view_activity_feed(u)
        \/ view_settings(u)
        \/ view_feedback_history(u)
        \/ health_check(u)
        \/ cache_health(u)
        \/ get_user_feedback(u)
        \/ submit_feedback(u)
        \/ fetch_sitemap(u)
        \/ fetch_robots(u)
        \/ fetch_manifest(u)
        \/ load_favicon(u)
        \/ load_logo(u)

Spec == Init /\ [][Next]_vars

(***************************************************************************)
(* setup_test_users.py                                                     *)
(***************************************************************************)
SETUP_TEST_USERS ==
    << [email |-> "loadtest1@smartsplit.test", password |-> "LoadTest123!",
        name |-> "Load Test User 1"],
       [email |-> "loadtest2@smartsplit.test", password |-> "LoadTest123!",
        name |-> "Load Test User 2"],
       [email |-> "loadtest3@smartsplit.test", password |-> "LoadTest123!",
        name |-> "Load Test User 3"] >>

\* what requests.post to the admin API does: a transport exception or a response
AdminTransports ==
    { [exc |-> "ConnectionError", status |-> 0] }
    \cup { [exc |-> "none", status |-> s] : s \in AdminStatuses }

AdminPost(email, password, name, key) ==
    [method |-> "POST", url |-> "/auth/v1/admin/users", apikey |-> key,
     Authorization |-> <<"Bearer ", key>>, email |-> email, password |-> password,
     email_confirm |-> TRUE, full_name |-> name, timeout |-> 10]

\* create_user counting "already exists" as a failure
create_user_422Fails(email, password, name, key, t) ==
    IF key = ""
    THEN [posts |-> <<>>, exc |-> "none", ret |-> FALSE]
    ELSE [posts |-> <<AdminPost(email, password, name, key)>>, exc |-> "none",
          ret |-> (t.exc = "none" /\ t.status \in {200, 201})]

\* the requests create_user issued, the exception that leaves it ("none" when
\* it returns) and the value returned
create_user(email, password, name, key, t) ==
    IF key = ""
    THEN [posts |-> <<>>, exc |-> "none", ret |-> FALSE]
    ELSE LET posts == <<AdminPost(email, password, name, key)>> IN
         IF t.exc # "none"
         THEN [posts |-> posts, exc |-> "none", ret |-> FALSE]
         ELSE IF t.status = 200 \/ t.status = 201
         THEN [posts |-> posts, exc |-> "none", ret |-> TRUE]
         ELSE IF t.status = 422
         THEN [posts |-> posts, exc |-> "none", ret |-> TRUE]
         ELSE [posts |-> posts, exc |-> "none", ret |-> FALSE]

\* f"Setup complete: {success_count}/{len(TEST_USERS)} users ready"
SummaryLine(count, total) ==
    <<"Setup complete: ">> \o Digits(count) \o <<"/">> \o Digits(total)
        \o <<" users ready">>

\* main, up to the service-key check
main_start ==
    /\ mpc = "start"
    /\ IF SUPABASE_SERVICE_KEY = ""
       THEN mpc' = "returned" /\ UNCHANGED success_count
       ELSE mpc' = "loop" /\ success_count' = 0
    /\ UNCHANGED <<SUPABASE_SERVICE_KEY, idx, calls, summary>>
    /\ UNCHANGED locustVars

\* the loop giving up at the first account that fails
main_loop_StopOnFailure ==
    /\ mpc = "loop"
    /\ idx <= Len(SETUP_TEST_USERS)
    /\ \E t \in AdminTransports :
         LET user == SETUP_TEST_USERS[idx]
             r == create_user(user.email, user.password, user.name,
                              SUPABASE_SERVICE_KEY, t)
         IN /\ calls' = Append(calls, [email |-> user.email, posts |-> r.posts,
                                       exc |-> t.exc, status |-> t.status,
                                       ret |-> r.ret])
            /\ mpc' = mpc
            /\ idx' = IF r.ret THEN idx + 1 ELSE Len(SETUP_TEST_USERS) + 1
            /\ success_count' = IF r.ret THEN success_count + 1 ELSE success_count
    /\ UNCHANGED <<SUPABASE_SERVICE_KEY, summary>>
    /\ UNCHANGED locustVars

\* one iteration of "for user in TEST_USERS"
main_loop ==
    /\ mpc = "loop"
    /\ idx <= Len(SETUP_TEST_USERS)
    /\ \E t \in AdminTransports :
         LET user == SETUP_TEST_USERS[idx]
             r == create_user(user.email, user.password, user.name,
                              SUPABASE_SERVICE_KEY, t)
         IN /\ calls' = Append(calls, [email |-> user.email, posts |-> r.posts,
                                       exc |-> t.exc, status |-> t.status,
                                       ret |-> r.ret])
            /\ IF r.exc # "none"
               THEN /\ mpc' = "crashed"
                    /\ UNCHANGED <<idx, success_count>>
               ELSE /\ mpc' = mpc
                    /\ idx' = idx + 1
                    /\ success_count' = IF r.ret THEN success_count + 1
                                        ELSE success_count
    /\ UNCHANGED <<SUPABASE_SERVICE_KEY, summary>>
    /\ UNCHANGED locustVars

\* main, after the loop
main_finish ==
    /\ mpc = "loop"
    /\ idx > Len(SETUP_TEST_USERS)
    /\ summary' = Append(summary, SummaryLine(success_count, Len(SETUP_TEST_USERS)))
    /\ mpc' = "done"
    /\ UNCHANGED <<SUPABASE_SERVICE_KEY, idx, success_count, calls>>
    /\ UNCHANGED locustVars

InitSetup ==
    /\ SUPABASE_SERVICE_KEY \in ServiceKeys
    /\ SetupIdle
    /\ SUPABASE_ANON_KEY = ""
    /\ LocustIdle

NextSetup ==
    \/ main_start
    \/ main_loop
    \/ main_finish

SpecSetup == InitSetup /\ [][NextSetup]_vars

(***************************************************************************)
(* Properties                                                              *)
(***************************************************************************)
\* the last event is a task that sent a request and got an answer
Answered == last.kind = "task" /\ Len(last.sent) = 1

AuthPageTasks == {"view_dashboard", "view_groups_list", "view_expenses_list",
                  "view_activity_feed", "view_settings", "view_feedback_history"}

AuthTasks == AuthPageTasks \cup {"get_user_feedback"}

HasAuthorization(req) == "Authorization" \in DOMAIN req.headers
HasAuthCookie(req) == AuthCookieName \in DOMAIN req.cookies

\* user u holds an access token
HoldsToken(u) ==
    /\ profile[u] \in AuthProfiles
    /\ Truthy(GetAttr(heap, profile[u], u, "access_token"))

\* C1 as stated: every task that got a 200 response recorded a success,
\* whatever the response body contains.
C1_AnyBody200IsSuccess ==
    (Answered /\ last.status = 200) => last.rec.outcome = "success"

\* C1 amended: a 200 response is recorded as a success by every task except
\* fetch_sitemap, which records a success when the body contains "urlset" and
\* otherwise the failure "Invalid sitemap: 200".
C1_200IsSuccessUnlessSitemapBody ==
    (Answered /\ last.status = 200) =>
        IF last.task = "fetch_sitemap"
        THEN last.rec = IF last.urlset THEN Success
                        ELSE Failure(<<"Invalid sitemap: ", "2", "0", "0">>)
        ELSE last.rec = Success

C1_Witness ==
    /\ Answered
    /\ last.task = "fetch_sitemap"
    /\ last.status = 200
    /\ ~last.urlset
    /\ last.rec.outcome = "failure"

\* the two statuses other than 200 that a task accepts
AcceptedException ==
    \/ last.task = "cache_health" /\ last.status = 503
    \/ last.task = "submit_feedback" /\ last.status = 429

\* C2 as stated: every response other than 200 is recorded as a failure whose
\* message contains the status code, except 503 on cache_health and 429 on
\* submit_feedback, which are recorded as successes.
C2_FailureMessageHasStatus ==
    (Answered /\ last.status # 200) =>
        IF AcceptedException
        THEN last.rec.outcome = "success"
        ELSE /\ last.rec.outcome = "failure"
             /\ Contains(last.rec.msg, Digits(last.status))

\* the answers whose failure message is a fixed text
FixedTextFailure ==
    \/ last.task \in AuthPageTasks /\ last.status \in {401, 302, 307}
    \/ last.task = "get_user_feedback" /\ last.status = 401

\* C2 amended: every response other than 200 is recorded as a failure, except
\* 503 on cache_health and 429 on submit_feedback, which are successes; the
\* failure message contains the status code except for 401, 302 and 307 on the
\* authenticated page tasks and 401 on get_user_feedback, whose message is a
\* fixed text without the code.
C2_FailureMessageHasStatusUnlessFixedText ==
    (Answered /\ last.status # 200) =>
        IF AcceptedException
        THEN last.rec = Success
        ELSE /\ last.rec.outcome = "failure"
             /\ Contains(last.rec.msg, Digits(last.status)) <=> ~FixedTextFailure

C2_Witness ==
    /\ Answered
    /\ last.task = "view_dashboard"
    /\ last.status = 401
    /\ last.rec = Failure(<<"Unauthorized - token may be expired">>)

\* C3: get_supabase_token never raises, and returns a dict only when the
\* anonymous key is configured and the token endpoint answered 200; otherwise
\* it returns None.
C3_TokenOnlyOn200 ==
    last.kind = "login" =>
        /\ last.auth.exc = "none"
        /\ last.auth.ret.py \in {"None", "dict"}
        /\ DictTruthy(last.auth.ret) =>
              /\ SUPABASE_ANON_KEY # ""
              /\ last.auth.net.exc = "none"
              /\ last.auth.net.status = 200
        /\ ~DictTruthy(last.auth.ret) => last.auth.ret = NoneResult

C3_Witness ==
    /\ last.kind = "login"
    /\ last.auth.net.status = 200
    /\ last.auth.net.body.kind = "invalid"
    /\ Len(last.auth.posts) = 1
    /\ last.auth.ret = NoneResult

\* C5: a request sent by a user that holds no access token carries neither an
\* Authorization header nor the auth-token cookie.
C5_NoTokenNoCredentials ==
    (last.kind = "task" /\ ~HoldsToken(last.user)) =>
        \A i \in 1..Len(last.sent) :
            ~HasAuthorization(last.sent[i]) /\ ~HasAuthCookie(last.sent[i])

C5_Witness ==
    /\ Answered
    /\ profile[last.user] = "APIUser"
    /\ "access_token" \in DOMAIN heap.inst[last.user]
    /\ ~HoldsToken(last.user)

\* the login of user u returned None
LoginFailed(u) ==
    /\ profile[u] \in AuthProfiles
    /\ pc[u] = "running"
    /\ heap.inst[u] = EmptyDict

\* C6: a failed login leaves the user running with no session state; the
\* authenticated tasks of such a user send nothing and record nothing, and
\* every authenticated request that is sent carries a non-empty token.
C6_FailedLoginSkipsAuthTasks ==
    /\ \A u \in Users : pc[u] # "aborted"
    /\ (last.kind = "login" /\ ~DictTruthy(last.auth.ret)) => LoginFailed(last.user)
    /\ (last.kind = "task" /\ last.task \in AuthTasks /\ LoginFailed(last.user)) =>
          last.sent = <<>> /\ last.rec = NoRecord
    /\ (Answered /\ last.task \in AuthTasks) =>
          \E tok \in {Str(JWTs[u]) : u \in Users} :
              Truthy(tok) /\ last.sent[1].cookies = AuthCookies(tok)

C6_Witness ==
    /\ last.kind = "task"
    /\ last.task \in AuthTasks
    /\ LoginFailed(last.user)
    /\ last.sent = <<>>

\* C7 as stated: every invocation of get_supabase_token issues exactly one
\* POST, whatever the configuration.
C7_ExactlyOnePost ==
    last.kind = "login" => Len(last.auth.posts) = 1

\* C7 amended: an invocation of get_supabase_token issues exactly one POST to
\* the password-grant endpoint when the anonymous key is configured, and none
\* when it is not.
C7_OnePostWhenKeyConfigured ==
    last.kind = "login" =>
        IF SUPABASE_ANON_KEY = ""
        THEN last.auth.posts = <<>>
        ELSE /\ Len(last.auth.posts) = 1
             /\ last.auth.posts[1].url = "/auth/v1/token?grant_type=password"
             /\ last.auth.posts[1].email = last.auth.email

C7_Witness ==
    /\ last.kind = "login"
    /\ SUPABASE_ANON_KEY # ""
    /\ last.auth.net.exc = "none"
    /\ last.auth.net.status = 400
    /\ Len(last.auth.posts) = 1

\* attributes user v reads through self
Visible(v) ==
    [a \in DOMAIN ClassAttrs[profile[v]] |-> GetAttr(heap, profile[v], v, a)]

\* C9: get_supabase_token is invoked once per session, by on_start before any
\* task; no step of a running user changes its session state or logs in
\* again, and a request that carries a token carries the one set by on_start.
C9_LoginOnceTokenFixed ==
    [][ /\ \A u \in Users :
             /\ logins'[u] = IF profile[u] \in AuthProfiles /\ pc'[u] # "spawned"
                             THEN 1 ELSE 0
             /\ pc[u] = "running" =>
                   /\ heap'.inst[u] = heap.inst[u]
                   /\ logins'[u] = logins[u]
        /\ last'.kind = "login" => pc[last'.user] = "spawned"
        /\ (last'.kind = "task" /\ Len(last'.sent) = 1 /\ HasAuthCookie(last'.sent[1])) =>
              /\ last'.sent[1].cookies =
                    AuthCookies(GetAttr(heap, profile[last'.user], last'.user,
                                        "access_token"))
              /\ last'.sent[1].cookies =
                    AuthCookies(GetAttr(heap', profile[last'.user], last'.user,
                                        "access_token"))
      ]_vars

C9_Witness ==
    /\ Answered
    /\ last.task \in AuthTasks
    /\ last.status = 401
    /\ logins[last.user] = 1
    /\ last.sent[1].cookies = AuthCookies(Str(JWTs[last.user]))
    /\ GetAttr(heap, profile[last.user], last.user, "access_token")
          = Str(JWTs[last.user])

\* C10: a step of one user changes nothing another user reads through self,
\* the class-level defaults and the credential pool are never written, and a
\* request that carries a token carries the token of the sender's own login.
C10_NoSharedSessionState ==
    [][ /\ \A v \in Users : v # last'.user => Visible(v)' = Visible(v)
        /\ heap'.cls = ClassAttrs
        /\ TEST_USERS' = TEST_USERS
        /\ (last'.kind = "task" /\ Len(last'.sent) = 1 /\ HasAuthCookie(last'.sent[1])) =>
              last'.sent[1].cookies = AuthCookies(Str(JWTs[last'.user]))
      ]_vars

C10_Witness ==
    \E u, v \in Users :
        /\ u # v
        /\ profile[u] = profile[v]
        /\ HoldsToken(u)
        /\ LoginFailed(v)
        /\ last.kind = "task"
        /\ last.user = v
        /\ last.task \in AuthTasks

\* accounts whose create_user call main counted as a success
Succeeded == {i \in 1..Len(calls) : calls[i].ret}

\* C4: create_user returns True exactly when the admin API answered 200, 201
\* or 422; once main has gone through the list, the summary reports the number
\* of accounts so classified out of 3.
C4_SuccessCountMatches ==
    /\ \A i \in 1..Len(calls) :
          calls[i].ret <=> (calls[i].exc = "none" /\ calls[i].status \in {200, 201, 422})
    /\ mpc = "done" =>
          /\ Cardinality(Succeeded) \in 0..3
          /\ success_count = Cardinality(Succeeded)
          /\ summary = << <<"Setup complete: ", DigitChars[Cardinality(Succeeded) + 1],
                            "/", "3", " users ready">> >>

C4_Witness ==
    /\ mpc = "done"
    /\ calls[1].status = 422
    /\ calls[2].status = 500
    /\ calls[3].status = 201
    /\ success_count = 2

\* main has returned
MainEnded == mpc \in {"done", "returned", "crashed"}

\* one admin call per listed account, in list order
OneCallPerAccount ==
    /\ Len(calls) = Len(SETUP_TEST_USERS)
    /\ \A i \in 1..Len(calls) :
          /\ Len(calls[i].posts) = 1
          /\ calls[i].posts[1].url = "/auth/v1/admin/users"
          /\ calls[i].posts[1].email = SETUP_TEST_USERS[i].email

\* C8 as stated: every run of main, also one without a service key, makes one
\* admin call per listed account in list order and ends by printing the
\* summary.
C8_AlwaysCallsAllAndPrints ==
    MainEnded => OneCallPerAccount /\ Len(summary) = 1

\* C8 amended: with the service key configured, every run of main makes one
\* admin call per listed account in list order, whatever the earlier calls
\* returned, and ends by printing the summary; without the service key main
\* returns at once, making no call and printing no summary.
C8_CallsAllAndPrintsWhenKeyConfigured ==
    MainEnded =>
        IF SUPABASE_SERVICE_KEY # ""
        THEN mpc = "done" /\ OneCallPerAccount /\ Len(summary) = 1
        ELSE mpc = "returned" /\ calls = <<>> /\ summary = <<>>

C8_Witness ==
    /\ mpc = "done"
    /\ ~calls[1].ret
    /\ calls[2].exc = "ConnectionError"
    /\ calls[3].ret
    /\ Len(summary) = 1

====
